---- MODULE Spec2Model ----
(***************************************************************************)
(* terraform-provider-livekit: the provider's Configure (credential        *)
(* resolution, construction of the shared *auth.AccessToken) and the       *)
(* livekit_access_token resource (Configure, Create, Read, Update, Delete, *)
(* ImportState), with the planning rules its schema declares.              *)
(*                                                                         *)
(* Strings that the code only stores and compares (room, identity, key,    *)
(* secret) are TLA+ strings.  valid_for is parsed character by character   *)
(* by time.ParseDuration, so it is a sequence of one-character strings.    *)
(***************************************************************************)
EXTENDS Integers, Sequences, FiniteSets, TLC

(***************************************************************************)
(* time.Duration.  An int64 count of nanoseconds does not fit the model    *)
(* checker's integers, so a magnitude is kept as hours, seconds (below     *)
(* 3600) and nanoseconds (below 10^9), and a Duration is a sign and a      *)
(* magnitude.  Every comparison and sum below is exact.                    *)
(***************************************************************************)
Billion == 1000 * 1000 * 1000

Mag(h, s, ns) == [h |-> h, s |-> s, ns |-> ns]

\* carries nanoseconds into seconds and seconds into hours
Norm(h, s, ns) ==
    LET s2 == s + (ns \div Billion)
    IN  Mag(h + (s2 \div 3600), s2 % 3600, ns % Billion)

ZeroMag == Mag(0, 0, 0)

AddMag(a, b) == Norm(a.h + b.h, a.s + b.s, a.ns + b.ns)

GtMag(a, b) ==
    \/ a.h > b.h
    \/ a.h = b.h /\ a.s > b.s
    \/ a.h = b.h /\ a.s = b.s /\ a.ns > b.ns

\* 1<<63 nanoseconds = 2562047 h 2836 s 854775808 ns
Two63 == Mag(2562047, 2836, 854775808)

\* 1<<63 - 1 nanoseconds, the largest time.Duration
MaxInt64 == Mag(2562047, 2836, 854775807)

Duration(neg, mag) == [neg |-> neg /\ mag # ZeroMag, mag |-> mag]

Hours(n) == Duration(FALSE, Mag(n, 0, 0))

Minutes(n) == Duration(FALSE, Norm(0, n * 60, 0))

\* d > 0 on a time.Duration
Positive(d) == ~d.neg /\ d.mag # ZeroMag

(***************************************************************************)
(* time.ParseDuration (Go standard library), as called by Create.          *)
(* An optional sign, then one or more groups of a decimal number (digits,   *)
(* optionally a point and more digits) and a unit.                         *)
(***************************************************************************)
Digits == {"0", "1", "2", "3", "4", "5", "6", "7", "8", "9"}

DigitVal(c) ==
    CASE c = "0" -> 0 [] c = "1" -> 1 [] c = "2" -> 2 [] c = "3" -> 3
      [] c = "4" -> 4 [] c = "5" -> 5 [] c = "6" -> 6 [] c = "7" -> 7
      [] c = "8" -> 8 [] c = "9" -> 9

\* unitMap with a day unit added
unitMapWithDays ==
    [u \in {<<"n", "s">>, <<"u", "s">>, <<"U+00B5", "s">>, <<"U+03BC", "s">>,
            <<"m", "s">>, <<"s">>, <<"m">>, <<"h">>, <<"d">>} |->
        CASE u = <<"n", "s">> -> [sec |-> 0, ns |-> 1]
          [] u = <<"m", "s">> -> [sec |-> 0, ns |-> 1000 * 1000]
          [] u = <<"s">>      -> [sec |-> 1, ns |-> 0]
          [] u = <<"m">>      -> [sec |-> 60, ns |-> 0]
          [] u \in {<<"h">>, <<"d">>} -> [sec |-> 3600, ns |-> 0]
          [] OTHER            -> [sec |-> 0, ns |-> 1000]]

\* the size of each unit of time.unitMap; the two micro signs (U+00B5 and
\* U+03BC) are one character each
unitMap ==
    [u \in {<<"n", "s">>, <<"u", "s">>, <<"U+00B5", "s">>, <<"U+03BC", "s">>,
            <<"m", "s">>, <<"s">>, <<"m">>, <<"h">>} |->
        CASE u = <<"n", "s">> -> [sec |-> 0, ns |-> 1]
          [] u = <<"m", "s">> -> [sec |-> 0, ns |-> 1000 * 1000]
          [] u = <<"s">>      -> [sec |-> 1, ns |-> 0]
          [] u = <<"m">>      -> [sec |-> 60, ns |-> 0]
          [] u = <<"h">>      -> [sec |-> 3600, ns |-> 0]
          [] OTHER            -> [sec |-> 0, ns |-> 1000]]

Drop(s, n) == SubSeq(s, n + 1, Len(s))

\* the length of the longest prefix of s whose characters are all in set
RECURSIVE PrefixLen(_, _)
PrefixLen(s, set) ==
    IF s # << >> /\ Head(s) \in set THEN 1 + PrefixLen(Tail(s), set) ELSE 0

RECURSIVE DecimalValue(_, _)
DecimalValue(s, x) ==
    IF s = << >> THEN x ELSE DecimalValue(Tail(s), x * 10 + DigitVal(Head(s)))

RECURSIVE Pow10(_)
Pow10(k) == IF k = 0 THEN 1 ELSE 10 * Pow10(k - 1)

\* leadingInt: the leading [0-9]* of s as a number, and the rest.  Its
\* overflow error needs nineteen digits; the inputs of this model are shorter.
leadingInt(s) ==
    LET n == PrefixLen(s, Digits)
    IN  [x |-> DecimalValue(SubSeq(s, 1, n), 0), rem |-> Drop(s, n)]

\* leadingFraction: the leading [0-9]* of s as a number, its scale 10^digits,
\* and the rest
leadingFraction(s) ==
    LET n == PrefixLen(s, Digits)
    IN  [x |-> DecimalValue(SubSeq(s, 1, n), 0), scale |-> Pow10(n), rem |-> Drop(s, n)]

\* v * unit, as a magnitude
UnitTimes(v, unit) ==
    IF unit.sec > 0
    THEN LET k == 3600 \div unit.sec
         IN  Norm(v \div k, (v % k) * unit.sec, 0)
    ELSE LET k    == Billion \div unit.ns
             secs == v \div k
         IN  Norm(secs \div 3600, secs % 3600, (v % k) * unit.ns)

\* uint64(float64(f) * (float64(unit) / scale)): the integer part of
\* f * unit / scale, as a magnitude
FractionTimes(f, scale, unit) ==
    IF unit.sec > 0
    THEN LET p == f * unit.sec
         IN  Norm(0, p \div scale, (p % scale) * (Billion \div scale))
    ELSE Norm(0, 0, (f * unit.ns) \div scale)

Failed(msg) == [err |-> msg, d |-> Duration(FALSE, ZeroMag)]

Parsed(d) == [err |-> "", d |-> d]

\* the loop "for s != ''" of ParseDuration: s is what is left to read, d the
\* magnitude summed so far
RECURSIVE ParseLoop(_, _, _)
ParseLoop(s, d, neg) ==
    IF s = << >>
    THEN IF neg THEN Parsed(Duration(TRUE, d))
         ELSE IF GtMag(d, MaxInt64) THEN Failed("invalid duration")
         ELSE Parsed(Duration(FALSE, d))
    ELSE IF ~(Head(s) = "." \/ Head(s) \in Digits) THEN Failed("invalid duration")
    ELSE
      LET li   == leadingInt(s)
          pre  == Len(li.rem) # Len(s)
          dot  == li.rem # << >> /\ Head(li.rem) = "."
          lf   == IF dot THEN leadingFraction(Tail(li.rem))
                  ELSE [x |-> 0, scale |-> 1, rem |-> li.rem]
          post == dot /\ Len(lf.rem) # Len(Tail(li.rem))
          ulen == PrefixLen(lf.rem, {c \in {lf.rem[j] : j \in 1..Len(lf.rem)} :
                                       c # "." /\ c \notin Digits})
          u    == SubSeq(lf.rem, 1, ulen)
      IN  IF ~pre /\ ~post THEN Failed("invalid duration")
          ELSE IF ulen = 0 THEN Failed("missing unit")
          ELSE IF u \notin DOMAIN unitMap THEN Failed("unknown unit")
          ELSE
            LET unit == unitMap[u]
                v    == UnitTimes(li.x, unit)
                vf   == IF lf.x > 0 THEN AddMag(v, FractionTimes(lf.x, lf.scale, unit))
                        ELSE v
                sum  == AddMag(d, vf)
            IN  \* v > 1<<63/unit says the same as v*unit > 1<<63
                IF GtMag(v, Two63) \/ GtMag(vf, Two63) \/ GtMag(sum, Two63)
                THEN Failed("invalid duration")
                ELSE ParseLoop(Drop(lf.rem, ulen), sum, neg)

ParseDuration(orig) ==
    LET signed == orig # << >> /\ Head(orig) \in {"-", "+"}
        neg    == signed /\ Head(orig) = "-"
        s      == IF signed THEN Tail(orig) ELSE orig
    IN  IF s = <<"0">> THEN Parsed(Duration(FALSE, ZeroMag))
        ELSE IF s = << >> THEN Failed("invalid duration")
        ELSE ParseLoop(s, ZeroMag, neg)

(***************************************************************************)
(* Values of the plugin framework: types.String / types.Bool of the        *)
(* provider and resource models, and diagnostics.                          *)
(***************************************************************************)
\* types.StringValue(v)
StringValue(v) == [null |-> FALSE, value |-> v]

\* a null types.String whose ValueString() is the empty string e
StringNull(e) == [null |-> TRUE, value |-> e]

ValueString(v) == v.value

IsNull(v) == v.null

HasError(diags) == diags # << >>

(***************************************************************************)
(* github.com/livekit/protocol/auth: the AccessToken builder that Create   *)
(* calls.  Its setters write the receiver and return it; ToJWT signs what  *)
(* the receiver holds at that moment.                                      *)
(***************************************************************************)
NoVideo == [nil |-> TRUE]

NilAccessToken == [nil |-> TRUE]

NewAccessToken(key, secret) ==
    [apiKey |-> key, secret |-> secret,
     grant |-> [identity |-> "", video |-> NoVideo],
     validFor |-> Duration(FALSE, ZeroMag)]

AddGrant(t, grant) == [t EXCEPT !.grant.video = grant]

SetIdentity(t, identity) == [t EXCEPT !.grant.identity = identity]

SetValidFor(t, duration) == [t EXCEPT !.validFor = duration]

\* auth.defaultValidDuration, six hours
defaultValidDuration == Hours(6)

\* ToJWT at time now.  A JWT is the claims it encodes: issuer, subject, the
\* video grant, not-before, and the distance from not-before to expiry
\* (ttl); sig is the secret it was signed with.  signerErr is the outcome of
\* the JOSE signer, which Create cannot influence.
ToJWT(t, now, signerErr) ==
    IF t.apiKey = "" \/ t.secret = "" THEN [err |-> "keys missing"]
    ELSE IF signerErr THEN [err |-> "signer"]
    ELSE [err |-> "",
          jwt |-> [iss   |-> t.apiKey,
                   sub   |-> t.grant.identity,
                   video |-> t.grant.video,
                   nbf   |-> now,
                   ttl   |-> IF Positive(t.validFor) THEN t.validFor.mag
                             ELSE defaultValidDuration.mag,
                   sig   |-> t.secret]]

(***************************************************************************)
(* The provider: LivekitProvider.Configure.                                *)
(***************************************************************************)
\* os.Getenv: the value of a variable, the empty string when it is not set
Getenv(v) == IF v.null THEN "" ELSE v.value

KeyMissing == "Livekit api key missing"

SecretMissing == "Livekit api secret missing"

\* Resolve falling back to the environment when the attribute is empty
ResolveNonEmptyFirst(attr, envVar) ==
    IF ~IsNull(attr) /\ ValueString(attr) # "" THEN ValueString(attr) ELSE Getenv(envVar)

\* the resolution of one credential: the environment, overridden by the
\* attribute whenever the attribute is not null
Resolve(attr, envVar) == IF ~IsNull(attr) THEN ValueString(attr) ELSE Getenv(envVar)

\* ConfigureResponse returning at the first missing credential
ConfigureResponseFirstOnly(data, env) ==
    LET apiKey    == IF ~IsNull(data.api_key) THEN ValueString(data.api_key)
                     ELSE Getenv(env.LIVEKIT_API_KEY)
        apiSecret == IF ~IsNull(data.api_secret) THEN ValueString(data.api_secret)
                     ELSE Getenv(env.LIVEKIT_API_SECRET)
    IN  IF apiKey = ""
        THEN [diags |-> <<KeyMissing>>, accessToken |-> NilAccessToken,
              ResourceData |-> "nil"]
        ELSE IF apiSecret = ""
        THEN [diags |-> <<SecretMissing>>, accessToken |-> NilAccessToken,
              ResourceData |-> "nil"]
        ELSE [diags |-> << >>, accessToken |-> NewAccessToken(apiKey, apiSecret),
              ResourceData |-> "accessToken"]

\* Configure's response for the provider model data in the environment env
ConfigureResponse(data, env) ==
    LET apiKey    == Resolve(data.api_key, env.LIVEKIT_API_KEY)
        apiSecret == Resolve(data.api_secret, env.LIVEKIT_API_SECRET)
        diags     == (IF apiKey = "" THEN <<KeyMissing>> ELSE << >>)
                     \o (IF apiSecret = "" THEN <<SecretMissing>> ELSE << >>)
    IN  IF HasError(diags)
        THEN [diags |-> diags, accessToken |-> NilAccessToken, ResourceData |-> "nil"]
        ELSE [diags |-> diags, accessToken |-> NewAccessToken(apiKey, apiSecret),
              ResourceData |-> "accessToken"]

(***************************************************************************)
(* The resource: its schema and its handlers.                              *)
(***************************************************************************)
\* Schema with room lacking the RequiresReplace plan modifier
SchemaRoomInPlace ==
    [a \in {"room", "identity", "can_publish", "can_publish_data", "can_subscribe",
            "valid_for", "token"} |->
        [required |-> a \notin {"valid_for", "token"},
         computed |-> a \in {"valid_for", "token"},
         requiresReplace |-> a \notin {"room", "token"},
         useStateForUnknown |-> a = "token"]]

\* AccessTokenResource.Schema: per attribute, what the schema declares
Schema ==
    [room             |-> [required |-> TRUE, computed |-> FALSE,
                           requiresReplace |-> TRUE, useStateForUnknown |-> FALSE],
     identity         |-> [required |-> TRUE, computed |-> FALSE,
                           requiresReplace |-> TRUE, useStateForUnknown |-> FALSE],
     can_publish      |-> [required |-> TRUE, computed |-> FALSE,
                           requiresReplace |-> TRUE, useStateForUnknown |-> FALSE],
     can_publish_data |-> [required |-> TRUE, computed |-> FALSE,
                           requiresReplace |-> TRUE, useStateForUnknown |-> FALSE],
     can_subscribe    |-> [required |-> TRUE, computed |-> FALSE,
                           requiresReplace |-> TRUE, useStateForUnknown |-> FALSE],
     valid_for        |-> [required |-> FALSE, computed |-> TRUE,
                           requiresReplace |-> TRUE, useStateForUnknown |-> FALSE],
     token            |-> [required |-> FALSE, computed |-> TRUE,
                           requiresReplace |-> FALSE, useStateForUnknown |-> TRUE]]

\* stringdefault.StaticString("1h") of valid_for
ValidForDefault == <<"1", "h">>

RequiresReplace == {a \in DOMAIN Schema : Schema[a].requiresReplace}

\* no resource state (before Create, after Delete)
NullState == [null |-> TRUE]

\* a computed value not yet known while planning
Unknown == [unknown |-> TRUE]

\* the plan the framework hands to Create or Update for configuration cfg over
\* the prior state: the default fills a null valid_for, and token keeps its
\* prior value when the schema says UseStateForUnknown
PlanOf(cfg, prior) ==
    [room             |-> cfg.room,
     identity         |-> cfg.identity,
     can_publish      |-> cfg.can_publish,
     can_publish_data |-> cfg.can_publish_data,
     can_subscribe    |-> cfg.can_subscribe,
     valid_for        |-> IF IsNull(cfg.valid_for) THEN StringValue(ValidForDefault)
                          ELSE cfg.valid_for,
     token            |-> IF prior # NullState /\ Schema.token.useStateForUnknown
                          THEN prior.token ELSE Unknown]

\* whether the plan differs from the prior state in an attribute whose plan
\* modifier is RequiresReplace
NeedsReplace(prior, plan) == \E a \in RequiresReplace : prior[a] # plan[a]

VideoGrant(data) ==
    [room           |-> data.room,
     canPublish     |-> data.can_publish,
     canPublishData |-> data.can_publish_data,
     canSubscribe   |-> data.can_subscribe,
     roomJoin       |-> TRUE]

InvalidValidFor == "Invalid valid_for "

ErrorCreatingJWT == "Error creating JWT"

\* CreateResponse setting the state before it signs, so that a signing error
\* leaves the plan data stored
CreateResponseStateFirst(data, t, now, signerErr) ==
    LET parsed == ParseDuration(ValueString(data.valid_for))
    IN  IF parsed.err # ""
        THEN [diags |-> <<"Invalid valid_for ">>, state |-> NullState,
              accessToken |-> t, signed |-> FALSE]
        ELSE
          LET at  == SetValidFor(SetIdentity(AddGrant(t,
                        [room |-> data.room, canPublish |-> data.can_publish,
                         canPublishData |-> data.can_publish_data,
                         canSubscribe |-> data.can_subscribe, roomJoin |-> TRUE]),
                        data.identity), parsed.d)
              res == ToJWT(at, now, signerErr)
          IN  IF res.err # ""
              THEN [diags |-> <<"Error creating JWT">>, state |-> data,
                    accessToken |-> at, signed |-> TRUE]
              ELSE [diags |-> << >>,
                    state |-> [data EXCEPT !.token = StringValue(res.jwt)],
                    accessToken |-> at, signed |-> TRUE]

\* AccessTokenResource.Create on plan data, with the shared handle t at time
\* now: the diagnostics, the state it sets (NullState when it sets none), the
\* handle as it leaves it, and whether ToJWT was called
CreateResponse(data, t, now, signerErr) ==
    LET parsed == ParseDuration(ValueString(data.valid_for))
    IN  IF parsed.err # ""
        THEN [diags |-> <<InvalidValidFor>>, state |-> NullState,
              accessToken |-> t, signed |-> FALSE]
        ELSE
          LET at  == SetValidFor(SetIdentity(AddGrant(t, VideoGrant(data)),
                                             data.identity), parsed.d)
              res == ToJWT(at, now, signerErr)
          IN  IF res.err # ""
              THEN [diags |-> <<ErrorCreatingJWT>>, state |-> NullState,
                    accessToken |-> at, signed |-> TRUE]
              ELSE [diags |-> << >>,
                    state |-> [data EXCEPT !.token = StringValue(res.jwt)],
                    accessToken |-> at, signed |-> TRUE]

\* ReadResponse that forgets the token
ReadResponseNoToken(prior) ==
    [diags |-> << >>, state |-> [prior EXCEPT !.token = StringNull("")]]

\* AccessTokenResource.Read: gets the prior state and sets it again
ReadResponse(prior) == [diags |-> << >>, state |-> prior]

\* AccessTokenResource.Update: sets the plan as the state
UpdateResponse(plan) == [diags |-> << >>, state |-> plan]

\* AccessTokenResource.Delete: gets the prior state and does nothing
DeleteResponse(prior) == [diags |-> << >>]

\* AccessTokenResource.ImportState: resource.ImportStatePassthroughID writes
\* the identifier to path.Root("id"); setting a path the schema does not have
\* is an error diagnostic, and an import that reports an error imports nothing
ImportPath == "id"

PathNotInSchema == "Invalid path: attribute not in schema"

ImportStateResponse(id) ==
    IF ImportPath \in DOMAIN Schema
    THEN [diags |-> << >>,
          state |-> [a \in DOMAIN Schema |->
                       IF a = ImportPath THEN StringValue(id) ELSE StringNull("")]]
    ELSE [diags |-> <<PathNotInSchema>>, state |-> NullState]

(***************************************************************************)
(* The inputs the operations are tried on.                                 *)
(***************************************************************************)
\* the most tokens issued in one behaviour
MaxClock == 3

Resources == {"r1", "r2"}

\* an environment variable or a provider attribute: not set, empty, set
EnvValues(v) == {StringNull(""), StringValue(""), StringValue(v)}

ProviderConfigs ==
    [api_key : EnvValues("cfg-key"), api_secret : EnvValues("cfg-secret")]

Environments ==
    [LIVEKIT_API_KEY : EnvValues("env-key"), LIVEKIT_API_SECRET : EnvValues("env-secret")]

vf_1h       == <<"1", "h">>
vf_30m      == <<"3", "0", "m">>
vf_1h30m    == <<"1", "h", "3", "0", "m">>
vf_tomorrow == <<"t", "o", "m", "o", "r", "r", "o", "w">>
vf_empty    == << >>
vf_1x       == <<"1", "x">>
vf_1d       == <<"1", "d">>
vf_1w       == <<"1", "w">>
vf_0s       == <<"0", "s">>
vf_neg1h    == <<"-", "1", "h">>
vf_1ms      == <<"1", "m", "s">>
vf_1p5h     == <<"1", ".", "5", "h">>
vf_0        == <<"0">>
vf_1        == <<"1">>
vf_toolong  == <<"2", "5", "6", "2", "0", "4", "8", "h">>

ValidForInputs ==
    {vf_1h, vf_30m, vf_1h30m, vf_tomorrow, vf_empty, vf_1x, vf_1d, vf_1w,
     vf_0s, vf_neg1h, vf_1ms, vf_1p5h, vf_0, vf_1, vf_toolong}

BaseConfig ==
    [room |-> "a", identity |-> "alice", can_publish |-> TRUE,
     can_publish_data |-> FALSE, can_subscribe |-> TRUE,
     valid_for |-> StringValue(vf_1h)]

OtherConfig ==
    [room |-> "b", identity |-> "bob", can_publish |-> FALSE,
     can_publish_data |-> TRUE, can_subscribe |-> FALSE,
     valid_for |-> StringValue(vf_30m)]

\* the base configuration, the base with one attribute changed (valid_for
\* over every input, and omitted), and a configuration that differs in all
Configs ==
    {BaseConfig, OtherConfig,
     [BaseConfig EXCEPT !.room = "b"],
     [BaseConfig EXCEPT !.identity = "bob"],
     [BaseConfig EXCEPT !.can_publish = FALSE],
     [BaseConfig EXCEPT !.can_publish_data = TRUE],
     [BaseConfig EXCEPT !.can_subscribe = FALSE],
     [BaseConfig EXCEPT !.valid_for = StringNull(<< >>)]}
    \cup {[BaseConfig EXCEPT !.valid_for = StringValue(v)] : v \in ValidForInputs}

\* the configurations of the interleaved creates
ConcurrentConfigs == {BaseConfig, OtherConfig}

\* what each instance is applied with: every configuration on the first,
\* two on the second
ConfigsOf(r) == IF r = "r1" THEN Configs ELSE ConcurrentConfigs

ImportIds == {"tok-1", "tok-2"}

(***************************************************************************)
(* State.                                                                  *)
(*   provider     what LivekitProvider.Configure answered                  *)
(*   accessToken  the *auth.AccessToken that Configure built (one object,  *)
(*                shared by pointer)                                       *)
(*   apiKeys      AccessTokenResource.apiKeys: nil, or the pointer         *)
(*   state        the stored record of each resource instance              *)
(*   now          the clock ToJWT reads                                    *)
(*   call         the Create in progress on each instance, when Creates    *)
(*                run concurrently                                         *)
(*   lastOp       the operation that ended last, its request and response  *)
(***************************************************************************)
VARIABLES provider, accessToken, apiKeys, state, now, call, lastOp

vars == <<provider, accessToken, apiKeys, state, now, call, lastOp>>

Idle == [pc |-> "idle"]

Init ==
    /\ provider = [configured |-> FALSE, diags |-> << >>, ResourceData |-> "nil"]
    /\ accessToken = NilAccessToken
    /\ apiKeys = "nil"
    /\ state = [r \in Resources |-> NullState]
    /\ now = 0
    /\ call = [r \in Resources |-> Idle]
    /\ lastOp = [op |-> "none"]

\* LivekitProvider.Configure, called once by the host
ProviderConfigure(data, env) ==
    /\ ~provider.configured
    /\ LET resp == ConfigureResponse(data, env)
       IN  /\ provider' = [configured |-> TRUE, diags |-> resp.diags,
                           ResourceData |-> resp.ResourceData]
           /\ accessToken' = resp.accessToken
           /\ lastOp' = [op |-> "ProviderConfigure", data |-> data, env |-> env,
                         diags |-> resp.diags]
    /\ UNCHANGED <<apiKeys, state, now, call>>

\* AccessTokenResource.Configure with req.ProviderData = provider.ResourceData
ResourceConfigure ==
    /\ apiKeys' = IF provider.ResourceData = "nil" THEN apiKeys
                  ELSE provider.ResourceData
    /\ lastOp' = [op |-> "ResourceConfigure", diags |-> << >>]
    /\ UNCHANGED <<provider, accessToken, state, now, call>>

\* the host calls the handlers of a configured resource only
Ready(r) == apiKeys = "accessToken" /\ call[r] = Idle

\* apply of cfg to an instance with no state: Create
Create(r, cfg, signerErr) ==
    /\ Ready(r)
    /\ state[r] = NullState
    /\ \E resp \in {CreateResponse(PlanOf(cfg, NullState), accessToken, now, signerErr)} :
           /\ resp.signed => now < MaxClock
           /\ state' = [state EXCEPT ![r] = resp.state]
           /\ accessToken' = resp.accessToken
           /\ now' = IF resp.signed THEN now + 1 ELSE now
           /\ lastOp' = [op |-> "Create", r |-> r, cfg |-> cfg,
                         signerErr |-> resp.signed /\ signerErr, diags |-> resp.diags]
    /\ UNCHANGED <<provider, apiKeys, call>>

\* apply of cfg to an instance whose state differs from the plan in an
\* attribute that requires replacement: Delete, then Create
Replace(r, cfg, signerErr) ==
    /\ Ready(r)
    /\ state[r] # NullState
    /\ NeedsReplace(state[r], PlanOf(cfg, state[r]))
    /\ \E resp \in {CreateResponse(PlanOf(cfg, NullState), accessToken, now, signerErr)} :
           /\ resp.signed => now < MaxClock
           /\ state' = [state EXCEPT ![r] = resp.state]
           /\ accessToken' = resp.accessToken
           /\ now' = IF resp.signed THEN now + 1 ELSE now
           /\ lastOp' = [op |-> "Replace", r |-> r, cfg |-> cfg,
                         signerErr |-> resp.signed /\ signerErr,
                         diags |-> DeleteResponse(state[r]).diags \o resp.diags]
    /\ UNCHANGED <<provider, apiKeys, call>>

\* apply of cfg to an instance whose state differs from the plan in no
\* attribute that requires replacement: Update
Update(r, cfg) ==
    /\ Ready(r)
    /\ state[r] # NullState
    /\ ~NeedsReplace(state[r], PlanOf(cfg, state[r]))
    /\ LET plan == PlanOf(cfg, state[r])
           resp == UpdateResponse(plan)
       IN  /\ state' = [state EXCEPT ![r] = resp.state]
           /\ lastOp' = [op |-> "Update", r |-> r, cfg |-> cfg,
                         diags |-> resp.diags]
    /\ UNCHANGED <<provider, accessToken, apiKeys, now, call>>

\* refresh of an instance: Read
Read(r) ==
    /\ Ready(r)
    /\ state[r] # NullState
    /\ LET resp == ReadResponse(state[r])
       IN  /\ state' = [state EXCEPT ![r] = resp.state]
           /\ lastOp' = [op |-> "Read", r |-> r, diags |-> resp.diags]
    /\ UNCHANGED <<provider, accessToken, apiKeys, now, call>>

\* destroy of an instance: Delete; the host drops the state when Delete
\* reports no error
Delete(r) ==
    /\ Ready(r)
    /\ state[r] # NullState
    /\ LET resp == DeleteResponse(state[r])
       IN  /\ state' = [state EXCEPT ![r] = IF HasError(resp.diags) THEN state[r]
                                             ELSE NullState]
           /\ lastOp' = [op |-> "Delete", r |-> r, diags |-> resp.diags]
    /\ UNCHANGED <<provider, accessToken, apiKeys, now, call>>

\* import of identifier id into an instance with no state: ImportState
ImportState(r, id) ==
    /\ Ready(r)
    /\ state[r] = NullState
    /\ LET resp == ImportStateResponse(id)
       IN  /\ state' = [state EXCEPT ![r] = IF HasError(resp.diags) THEN state[r]
                                             ELSE resp.state]
           /\ lastOp' = [op |-> "ImportState", r |-> r, id |-> id, diags |-> resp.diags]
    /\ UNCHANGED <<provider, accessToken, apiKeys, now, call>>

(***************************************************************************)
(* Create, statement by statement, for Creates that the host runs          *)
(* concurrently on several instances: call[r] is the frame of the Create   *)
(* in progress on r (its plan data, the parsed validFor, the next          *)
(* statement).                                                             *)
(***************************************************************************)
\* req.Plan.Get and time.ParseDuration; a parse failure ends the call
CreateBegin(r, cfg) ==
    /\ Ready(r)
    /\ state[r] = NullState
    /\ \E data \in {PlanOf(cfg, NullState)} :
       \E parsed \in {ParseDuration(ValueString(data.valid_for))} :
           IF parsed.err # ""
           THEN /\ lastOp' = [op |-> "Create", r |-> r, cfg |-> cfg,
                              signerErr |-> FALSE, diags |-> <<InvalidValidFor>>]
                /\ UNCHANGED call
           ELSE /\ call' = [call EXCEPT ![r] = [pc |-> "AddGrant", cfg |-> cfg,
                                                data |-> data, validFor |-> parsed.d]]
                /\ UNCHANGED lastOp
    /\ UNCHANGED <<provider, accessToken, apiKeys, state, now>>

\* r.apiKeys.AddGrant(grant)
CreateAddGrant(r) ==
    /\ call[r].pc = "AddGrant"
    /\ accessToken' = AddGrant(accessToken, VideoGrant(call[r].data))
    /\ call' = [call EXCEPT ![r].pc = "SetIdentity"]
    /\ UNCHANGED <<provider, apiKeys, state, now, lastOp>>

\* .SetIdentity(data.Identity.ValueString())
CreateSetIdentity(r) ==
    /\ call[r].pc = "SetIdentity"
    /\ accessToken' = SetIdentity(accessToken, call[r].data.identity)
    /\ call' = [call EXCEPT ![r].pc = "SetValidFor"]
    /\ UNCHANGED <<provider, apiKeys, state, now, lastOp>>

\* .SetValidFor(validFor)
CreateSetValidFor(r) ==
    /\ call[r].pc = "SetValidFor"
    /\ accessToken' = SetValidFor(accessToken, call[r].validFor)
    /\ call' = [call EXCEPT ![r].pc = "ToJWT"]
    /\ UNCHANGED <<provider, apiKeys, state, now, lastOp>>

\* at.ToJWT() and, when it succeeds, resp.State.Set
CreateToJWT(r, signerErr) ==
    /\ call[r].pc = "ToJWT"
    /\ now < MaxClock
    /\ \E res \in {ToJWT(accessToken, now, signerErr)} :
           /\ state' = [state EXCEPT ![r] =
                          IF res.err # "" THEN NullState
                          ELSE [call[r].data EXCEPT !.token = StringValue(res.jwt)]]
           /\ lastOp' = [op |-> "Create", r |-> r, cfg |-> call[r].cfg,
                         signerErr |-> signerErr,
                         diags |-> IF res.err # "" THEN <<ErrorCreatingJWT>> ELSE << >>]
    /\ now' = now + 1
    /\ call' = [call EXCEPT ![r] = Idle]
    /\ UNCHANGED <<provider, accessToken, apiKeys>>

\* operations run one after another
Next ==
    \/ \E data \in ProviderConfigs, env \in Environments : ProviderConfigure(data, env)
    \/ ResourceConfigure
    \/ \E r \in Resources, signerErr \in BOOLEAN :
         \E cfg \in ConfigsOf(r) : Create(r, cfg, signerErr)
    \/ \E r \in Resources, signerErr \in BOOLEAN :
         \E cfg \in ConfigsOf(r) : Replace(r, cfg, signerErr)
    \/ \E r \in Resources : \E cfg \in ConfigsOf(r) : Update(r, cfg)
    \/ \E r \in Resources : Read(r)
    \/ \E r \in Resources : Delete(r)
    \/ \E r \in Resources, id \in ImportIds : ImportState(r, id)

Spec == Init /\ [][Next]_vars

\* Creates of several instances run concurrently, each statement a step
NextConcurrent ==
    \/ \E data \in ProviderConfigs, env \in Environments : ProviderConfigure(data, env)
    \/ ResourceConfigure
    \/ \E r \in Resources, cfg \in ConcurrentConfigs : CreateBegin(r, cfg)
    \/ \E r \in Resources : CreateAddGrant(r)
    \/ \E r \in Resources : CreateSetIdentity(r)
    \/ \E r \in Resources : CreateSetValidFor(r)
    \/ \E r \in Resources, signerErr \in BOOLEAN : CreateToJWT(r, signerErr)
    \/ \E r \in Resources : Delete(r)

SpecConcurrent == Init /\ [][NextConcurrent]_vars

(***************************************************************************)
(* Properties.                                                             *)
(***************************************************************************)
\* the step that just ended was a Create handler call (alone, or as the
\* second half of a replacement)
Created == lastOp.op \in {"Create", "Replace"}

\* the plan valid_for of the last Create: the configured one, or the default
LastValidFor ==
    IF lastOp.cfg.valid_for.null THEN <<"1", "h">> ELSE lastOp.cfg.valid_for.value

\* the JWT stored for a record
TokenOf(rec) == rec.token.value

\* the JWT encodes the record's room, identity and flags, with room-join
CarriesGrantOf(jwt, rec) ==
    /\ jwt.video = [room |-> rec.room, canPublish |-> rec.can_publish,
                    canPublishData |-> rec.can_publish_data,
                    canSubscribe |-> rec.can_subscribe, roomJoin |-> TRUE]
    /\ jwt.sub = rec.identity

\* the JWT expires the record's valid_for after it was issued
CarriesValidityOf(jwt, rec) == jwt.ttl = ParseDuration(rec.valid_for.value).d.mag

SixAttributes ==
    {"room", "identity", "can_publish", "can_publish_data", "can_subscribe", "valid_for"}

\* C1: a stored record changes one of room, identity, can_publish,
\* can_publish_data, can_subscribe, valid_for only in a replacement, which
\* mints a new token in the same step; Update applies no such change; and
\* every stored token encodes the room, identity and flags of its record, and
\* the record's validity when that is positive.
C1_ChangeOnlyByReplace ==
    [][\A r \in Resources :
         /\ (/\ state[r] # NullState
             /\ state'[r] # NullState
             /\ \E a \in SixAttributes : state'[r][a] # state[r][a])
            => /\ lastOp'.op = "Replace"
               /\ lastOp'.r = r
               /\ TokenOf(state'[r]) # TokenOf(state[r])
               /\ TokenOf(state'[r]).nbf = now
               /\ now' = now + 1
         /\ (lastOp'.op = "Update" /\ lastOp'.r = r)
            => \A a \in SixAttributes \cup {"token"} : state'[r][a] = state[r][a]
         /\ state'[r] # NullState
            => /\ CarriesGrantOf(TokenOf(state'[r]), state'[r])
               /\ Positive(ParseDuration(state'[r].valid_for.value).d)
                  => CarriesValidityOf(TokenOf(state'[r]), state'[r])]_vars

\* C1 witness: a replacement that changed the room has minted the second token
C1_Witness ==
    /\ lastOp.op = "Replace"
    /\ lastOp.diags = << >>
    /\ lastOp.cfg.room = "b"
    /\ state[lastOp.r] # NullState
    /\ state[lastOp.r].room = "b"
    /\ TokenOf(state[lastOp.r]).nbf = 1

\* C2 (as claimed): every stored token carries the room, identity, flags and
\* validity of its own record, whatever the interleaving of the Creates.
C2_OwnRequestOnly ==
    \A r \in Resources :
        state[r] # NullState
        => /\ CarriesGrantOf(TokenOf(state[r]), state[r])
           /\ CarriesValidityOf(TokenOf(state[r]), state[r])

\* a source yields a non-empty value
NonEmpty(v) == ~v.null /\ v.value # ""

\* Configure handed a handle to the resources
Handed == provider.ResourceData = "accessToken" /\ accessToken # NilAccessToken

\* C3 (as claimed): Configure produces a handle exactly when, for the key and
\* for the secret, the attribute or the environment variable is non-empty.
C3_AnySourceNonEmpty ==
    lastOp.op = "ProviderConfigure"
    => (Handed <=>
          /\ NonEmpty(lastOp.data.api_key) \/ NonEmpty(lastOp.env.LIVEKIT_API_KEY)
          /\ NonEmpty(lastOp.data.api_secret) \/ NonEmpty(lastOp.env.LIVEKIT_API_SECRET))

\* the value a credential resolves to: the attribute when it is set (empty or
\* not), the environment variable only when the attribute is not set
Resolved(attr, envVar) ==
    IF attr.null THEN (IF envVar.null THEN "" ELSE envVar.value) ELSE attr.value

\* C3 (amended): Configure produces a handle exactly when the key and the
\* secret each resolve to a non-empty value, the attribute taking precedence
\* whenever it is set, even to the empty string; the handle holds the
\* resolved pair.
C3_ResolvedNonEmpty ==
    lastOp.op = "ProviderConfigure"
    => LET key    == Resolved(lastOp.data.api_key, lastOp.env.LIVEKIT_API_KEY)
           secret == Resolved(lastOp.data.api_secret, lastOp.env.LIVEKIT_API_SECRET)
       IN  /\ Handed <=> (key # "" /\ secret # "")
           /\ Handed => accessToken.apiKey = key /\ accessToken.secret = secret
           /\ ~Handed => provider.diags # << >>

\* C3 witness: an explicitly empty api_key has masked a non-empty
\* LIVEKIT_API_KEY, and Configure has failed
C3_Witness ==
    /\ lastOp.op = "ProviderConfigure"
    /\ lastOp.data.api_key = [null |-> FALSE, value |-> ""]
    /\ NonEmpty(lastOp.env.LIVEKIT_API_KEY)
    /\ NonEmpty(lastOp.data.api_secret)
    /\ ~Handed

\* C4: the key error is reported exactly when the resolved key is empty, the
\* secret error exactly when the resolved secret is empty, and nothing else is
\* reported, so with both missing there are exactly two distinct errors; after
\* any error the resources get no handle.
C4_IndependentErrors ==
    /\ lastOp.op = "ProviderConfigure"
       => LET key    == Resolved(lastOp.data.api_key, lastOp.env.LIVEKIT_API_KEY)
              secret == Resolved(lastOp.data.api_secret, lastOp.env.LIVEKIT_API_SECRET)
              diags  == provider.diags
              has(e) == \E i \in 1..Len(diags) : diags[i] = e
          IN  /\ has("Livekit api key missing") <=> key = ""
              /\ has("Livekit api secret missing") <=> secret = ""
              /\ Len(diags) = (IF key = "" THEN 1 ELSE 0) + (IF secret = "" THEN 1 ELSE 0)
              /\ (key = "" /\ secret = "") => Len(diags) = 2 /\ diags[1] # diags[2]
    /\ provider.diags # << >>
       => /\ provider.ResourceData = "nil"
          /\ accessToken = NilAccessToken
          /\ apiKeys = "nil"

\* C4 witness: both were missing, two errors were reported, and the resource
\* was then configured without a handle
C4_Witness ==
    /\ Len(provider.diags) = 2
    /\ lastOp.op = "ResourceConfigure"
    /\ apiKeys = "nil"

\* C5: a Create that reports an error (valid_for does not parse, or signing
\* fails) leaves the instance without a record, as it was; a Create that
\* reports none stores the record with the token that signing returned; and
\* every stored record has a token.
C5_NoPartialState ==
    [][/\ lastOp'.op \in {"Create", "Replace"}
          => LET r   == lastOp'.r
                 vf  == IF lastOp'.cfg.valid_for.null THEN <<"1", "h">>
                        ELSE lastOp'.cfg.valid_for.value
                 bad == ParseDuration(vf).err # "" \/ lastOp'.signerErr
             IN  /\ HasError(lastOp'.diags) <=> bad
                 /\ bad => /\ state'[r] = NullState
                           /\ lastOp'.op = "Create" => state'[r] = state[r]
                 /\ ~bad => /\ state'[r] # NullState
                            /\ state'[r].token
                                 = [null |-> FALSE,
                                    value |-> ToJWT(accessToken', now, FALSE).jwt]
       /\ \A r \in Resources :
            state'[r] # NullState
            => /\ ~state'[r].token.null
               /\ "unknown" \notin DOMAIN state'[r].token]_vars

\* C5 witness: signing failed and nothing was stored
C5_Witness ==
    /\ lastOp.op = "Create"
    /\ lastOp.signerErr
    /\ lastOp.diags = <<"Error creating JWT">>
    /\ state[lastOp.r] = NullState

\* C6 (as claimed): ImportState reports no error and stores the identifier as
\* the id of the resource state.
C6_ImportStoresId ==
    lastOp.op = "ImportState"
    => /\ lastOp.diags = << >>
       /\ state[lastOp.r] # NullState
       /\ "id" \in DOMAIN state[lastOp.r]
       /\ state[lastOp.r]["id"] = [null |-> FALSE, value |-> lastOp.id]

\* C7 (as claimed): with valid_for "1h", "1d" or "1w" Create parses the
\* duration and issues a token valid for one hour, one day, one week.
C7_DescriptionExamples ==
    (Created /\ ~lastOp.signerErr /\ LastValidFor \in {vf_1h, vf_1d, vf_1w})
    => /\ lastOp.diags = << >>
       /\ state[lastOp.r] # NullState
       /\ TokenOf(state[lastOp.r]).ttl
            = (CASE LastValidFor = vf_1h -> Hours(1).mag
                 [] LastValidFor = vf_1d -> Hours(24).mag
                 [] LastValidFor = vf_1w -> Hours(168).mag)

\* a duration string as the claim describes it: an optional sign, then one or
\* more groups of a decimal number (digits, or digits with a point) and a
\* unit out of units
RECURSIVE NumberUnitGroups(_, _)
NumberUnitGroups(s, units) ==
    LET whole    == PrefixLen(s, Digits)
        rest1    == Drop(s, whole)
        point    == rest1 # << >> /\ Head(rest1) = "."
        fraction == IF point THEN PrefixLen(Tail(rest1), Digits) ELSE 0
        rest2    == IF point THEN Drop(Tail(rest1), fraction) ELSE rest1
        letters  == PrefixLen(rest2, {rest2[j] : j \in 1..Len(rest2)} \ (Digits \cup {"."}))
        rest3    == Drop(rest2, letters)
    IN  /\ whole + fraction > 0
        /\ letters > 0
        /\ SubSeq(rest2, 1, letters) \in units
        /\ rest3 = << >> \/ NumberUnitGroups(rest3, units)

Unsigned(s) == IF s # << >> /\ Head(s) \in {"-", "+"} THEN Tail(s) ELSE s

WrittenIn(s, units) == Unsigned(s) # << >> /\ NumberUnitGroups(Unsigned(s), units)

HoursMinutesSeconds == {<<"h">>, <<"m">>, <<"s">>}

SubSecond == {<<"m", "s">>, <<"u", "s">>, <<"U+00B5", "s">>, <<"U+03BC", "s">>, <<"n", "s">>}

\* the inputs whose value is past the int64 nanosecond range
PastInt64 == {vf_toolong}

\* what C8 says of one step, with the accepted forms as a parameter: valid_for
\* is accepted exactly when it is in range and written in units (or, with
\* bare, is "0"); "1h", "30m", "1h30m" are parsed to their value and signed;
\* "tomorrow", "" and "1x" fail with the invalid-duration diagnostic alone;
\* a rejected valid_for leaves the handle and the clock as they were and
\* stores nothing; an omitted valid_for is planned, parsed and stored as "1h".
C8_Step(units, bare, past) ==
    lastOp'.op \in {"Create", "Replace"}
    => LET r        == lastOp'.r
           v        == IF lastOp'.cfg.valid_for.null THEN <<"1", "h">>
                       ELSE lastOp'.cfg.valid_for.value
           accepted == \A i \in 1..Len(lastOp'.diags) :
                          lastOp'.diags[i] # "Invalid valid_for "
       IN  /\ accepted <=> /\ v \notin past
                           /\ WrittenIn(v, units) \/ (bare /\ Unsigned(v) = <<"0">>)
           /\ v \in {vf_1h, vf_30m, vf_1h30m}
              => /\ accepted
                 /\ now' = now + 1
                 /\ accessToken'.validFor
                      = (CASE v = vf_1h    -> Hours(1)
                           [] v = vf_30m   -> Minutes(30)
                           [] v = vf_1h30m -> Minutes(90))
           /\ v \in {vf_tomorrow, vf_empty, vf_1x}
              => lastOp'.diags = <<"Invalid valid_for ">>
           /\ ~accepted
              => /\ accessToken' = accessToken
                 /\ now' = now
                 /\ state'[r] = NullState
           /\ lastOp'.cfg.valid_for.null
              => /\ accepted
                 /\ accessToken'.validFor = Hours(1)
                 /\ state'[r] # NullState
                    => /\ state'[r].valid_for = [null |-> FALSE, value |-> vf_1h]
                       /\ TokenOf(state'[r]).ttl = Hours(1).mag

\* C8 (as claimed): Create accepts the valid_for values written in hours,
\* minutes and seconds and rejects everything else.
C8_OnlyHoursMinutesSeconds == [][C8_Step(HoursMinutesSeconds, FALSE, {})]_vars

\* C8 (amended): Create accepts the valid_for values written in hours, minutes,
\* seconds and the sub-second units ms, us and ns, and the bare "0", as long
\* as the value fits the int64 nanosecond range, and rejects everything else.
C8_DurationSyntax ==
    [][C8_Step(HoursMinutesSeconds \cup SubSecond, TRUE, PastInt64)]_vars

\* C8 witness: a Create with valid_for "1ms" has stored a token
C8_Witness ==
    /\ lastOp.op = "Create"
    /\ lastOp.cfg.valid_for = [null |-> FALSE, value |-> vf_1ms]
    /\ lastOp.diags = << >>
    /\ state[lastOp.r] # NullState
    /\ TokenOf(state[lastOp.r]).ttl = [h |-> 0, s |-> 0, ns |-> 1000000]

\* C9: Read, Update and Delete leave the shared handle and the clock of
\* signing alone; Read leaves every stored record as it was and Delete
\* reports no error; a record appears, or its token changes, only in a
\* Create on that instance.
C9_OnlyCreateWritesToken ==
    [][/\ lastOp'.op \in {"Read", "Update", "Delete"}
          => accessToken' = accessToken /\ now' = now
       /\ lastOp'.op = "Read" => state' = state /\ lastOp'.diags = << >>
       /\ lastOp'.op = "Delete" => lastOp'.diags = << >>
       /\ \A r \in Resources :
            (/\ state'[r] # NullState
             /\ state[r] = NullState \/ state'[r].token # state[r].token)
            => lastOp'.op \in {"Create", "Replace"} /\ lastOp'.r = r]_vars

\* C9 witness: a Read has run on an instance that holds the second token
C9_Witness ==
    /\ lastOp.op = "Read"
    /\ state[lastOp.r] # NullState
    /\ TokenOf(state[lastOp.r]).nbf = 1

\* C10 (as claimed): every Create whose valid_for parses (and whose signer
\* does not fail) succeeds and stores a token that encodes exactly the room,
\* identity, flags, room-join and parsed validity of its own request.
C10_ExactlyOwnRequest ==
    (Created /\ ParseDuration(LastValidFor).err = "" /\ ~lastOp.signerErr)
    => /\ lastOp.diags = << >>
       /\ state[lastOp.r] # NullState
       /\ CarriesGrantOf(TokenOf(state[lastOp.r]), PlanOf(lastOp.cfg, NullState))
       /\ TokenOf(state[lastOp.r]).ttl = ParseDuration(LastValidFor).d.mag
====
